---- MODULE Spec2Model ----
(***************************************************************************)
(* Model of src/main.py: the breadth-first crawler crawl_website, the      *)
(* fixed-path probes check_env_files and check_admin_panels, the version   *)
(* scraper get_installed_software_versions, and main, which runs them in   *)
(* sequence.  HTTP servers are the environment: a crawl's response is       *)
(* chosen when the request is made; a probe or scraper run on its own      *)
(* draws the responses to its requests in its initial state.               *)
(***************************************************************************)
EXTENDS Integers, Sequences, FiniteSets, TLC

\* ------------------------------------------------------------------ bounds
\* crawl_website is called with depth in -1 .. MaxDepth
MaxDepth == 2
\* a fetched page holds at most MaxLinks <a href> elements, all different
MaxLinks == 2

\* ------------------------------------------------------------------- URLs
\* A URL is [scheme, netloc, path]; path is its sequence of segments.
Url(s, n, p) == [scheme |-> s, netloc |-> n, path |-> p]

\* urlparse(u).netloc: userinfo, host and port, without the scheme
Netloc(u) == u.netloc

\* An href is relative (a path resolved against the page's URL) or absolute.
Rel(p) == [kind |-> "rel", path |-> p]
Abs(u) == [kind |-> "abs", url |-> u]

DropLast(p) == IF p = <<>> THEN <<>> ELSE SubSeq(p, 1, Len(p) - 1)

\* urljoin(base, href): an absolute href replaces the base; a relative one
\* replaces the last segment of the base's path.
urljoin(base, href) ==
    IF href.kind = "abs"
    THEN href.url
    ELSE Url(base.scheme, base.netloc, DropLast(base.path) \o href.path)

\* The hrefs a page of the modelled sites may hold: a same-directory relative
\* link (self-links and cycles included), a link to the same netloc under
\* another scheme, and a link to another netloc.
Hrefs ==
    { Rel(<<"p1">>),
      Abs(Url("https", "a.test", <<"p0">>)),
      Abs(Url("http", "b.test", <<"p0">>)) }

\* the sequences of at most n elements of S
SeqsUpTo(S, n) == UNION { [1..k -> S] : k \in 0..n }

\* the sequences of at most n distinct elements of S
DistinctSeqs(S, n) ==
    UNION { { l \in [1..k -> S] : \A i, j \in 1..k : l[i] = l[j] => i = j } : k \in 0..n }

\* the url arguments of the modelled runs (main: target_url after line 190)
Seeds == { Url("http", "a.test", <<>>), Url("https", "b.test", <<"app", "p0">>) }

\* ------------------------------------------------------------- HTTP fetches
ConnErr == [kind |-> "connerr"]
Http(st, b) == [kind |-> "http", status |-> st, body |-> b]

\* response.raise_for_status(): HTTPError for 4xx and 5xx
RaisesForStatus_5xxOnly(status) == status >= 500 /\ status < 600
RaisesForStatus(status) == status >= 400 /\ status < 600

\* requests.get(...) followed by raise_for_status() raised RequestException
Raised(r) == IF r.kind = "connerr" THEN TRUE ELSE RaisesForStatus(r.status)

\* what a server may answer to a crawl request
CrawlResponses ==
    {ConnErr, Http(404, <<>>)} \cup { Http(200, l) : l \in DistinctSeqs(Hrefs, MaxLinks) }

\* some response of the sequence rs is an HTTP response (of any status)
AnyHttp(rs) == \E i \in DOMAIN rs : rs[i].kind = "http"

\* ------------------------------------------------------------------ state
VARIABLES
    url,             \* the url argument of the running function (main: target_url)
    depth,           \* crawl_website's depth argument (main: crawl_depth)
    visited,         \* crawl_website: set of URLs
    to_visit,        \* crawl_website: list of <<URL, depth>>
    pc,              \* position in the running function; "done" after its return
    crawlLog,        \* the requests.get calls of the crawl: [url, depth, resp]
    responses,       \* probe and scraper runs: what the server answers, in request order
    returned,        \* probe and scraper runs: [exc, value, requested] of the call
    mpc,             \* main's position; "none" when a function runs on its own
    discovered_urls, \* main
    env_files,       \* main
    admin_panels,    \* main
    version_info,    \* main; <<>> while unassigned
    caught,          \* main: the except Exception handler ran
    gotResponse      \* some request of the run was answered by an HTTP response

crawlVars == <<visited, to_visit, crawlLog>>
callVars == <<responses, returned>>
mainVars == <<mpc, discovered_urls, env_files, admin_panels, version_info, caught>>
vars == <<url, depth, pc, crawlVars, callVars, mainVars, gotResponse>>

NoReturn == [exc |-> "none", value |-> <<>>, requested |-> <<>>]

\* the state before main has assigned any of its results
MainUnset ==
    /\ discovered_urls = {}
    /\ env_files = <<>>
    /\ admin_panels = <<>>
    /\ version_info = <<>>
    /\ caught = FALSE
    /\ gotResponse = FALSE

\* ----------------------------------------------------------- crawl_website
\* lines 155-156
CrawlInit ==
    /\ url \in Seeds
    /\ depth \in (-1)..MaxDepth
    /\ visited = {}
    /\ to_visit = << <<url, 0>> >>
    /\ pc = "loop"
    /\ crawlLog = <<>>
    /\ responses = <<>>
    /\ returned = NoReturn

Pop_Last(q) == [item |-> q[Len(q)], rest |-> SubSeq(q, 1, Len(q) - 1)]
Pop_Peek(q) == [item |-> q[1], rest |-> q]
\* to_visit.pop(0)
Pop(q) == [item |-> Head(q), rest |-> Tail(q)]

ShouldSkip_DepthOnly(current_url, current_depth) == current_depth > depth
ShouldSkip_VisitedOnly(current_url, current_depth) == current_url \in visited
ShouldSkip_Geq(current_url, current_depth) ==
    current_url \in visited \/ current_depth >= depth
\* line 160
ShouldSkip(current_url, current_depth) ==
    current_url \in visited \/ current_depth > depth

SameDomain_Any(absolute_url) == TRUE
\* line 174
SameDomain(absolute_url) == Netloc(absolute_url) = Netloc(url)

\* lines 171-175: the entries appended for the links of one page, in order
RECURSIVE NewEntries(_, _, _)
NewEntries(current_url, current_depth, links) ==
    IF links = <<>>
    THEN <<>>
    ELSE LET absolute_url == urljoin(current_url, Head(links))
             rest == NewEntries(current_url, current_depth, Tail(links))
         IN IF SameDomain(absolute_url)
            THEN << <<absolute_url, current_depth + 1>> >> \o rest
            ELSE rest

\* lines 159-161: the popped entry is discarded
CrawlSkip ==
    /\ pc = "loop" /\ to_visit # <<>>
    /\ LET p == Pop(to_visit) IN
        /\ ShouldSkip(p.item[1], p.item[2])
        /\ to_visit' = p.rest
    /\ UNCHANGED <<url, depth, pc, visited, crawlLog, callVars, mainVars, gotResponse>>

\* lines 159-175: the popped entry is fetched and its links are appended
CrawlFetchOk ==
    /\ pc = "loop" /\ to_visit # <<>>
    /\ LET p == Pop(to_visit) IN
        /\ ~ShouldSkip(p.item[1], p.item[2])
        /\ \E r \in CrawlResponses :
            /\ ~Raised(r)
            /\ visited' = visited \cup {p.item[1]}
            /\ crawlLog' = Append(crawlLog,
                    [url |-> p.item[1], depth |-> p.item[2], resp |-> r])
            /\ to_visit' = p.rest \o NewEntries(p.item[1], p.item[2], r.body)
            /\ gotResponse' = (gotResponse \/ AnyHttp(<<r>>))
    /\ UNCHANGED <<url, depth, pc, callVars, mainVars>>

CrawlFetchFail_Abort ==
    /\ pc = "loop" /\ to_visit # <<>>
    /\ LET p == Pop(to_visit) IN
        /\ ~ShouldSkip(p.item[1], p.item[2])
        /\ \E r \in CrawlResponses :
            /\ Raised(r)
            /\ visited' = visited \cup {p.item[1]}
            /\ crawlLog' = Append(crawlLog,
                    [url |-> p.item[1], depth |-> p.item[2], resp |-> r])
            /\ to_visit' = p.rest
            /\ gotResponse' = (gotResponse \/ AnyHttp(<<r>>))
    /\ pc' = "done"
    /\ UNCHANGED <<url, depth, callVars, mainVars>>

\* lines 159-168, 177-178: the fetch raises RequestException, which is logged
CrawlFetchFail ==
    /\ pc = "loop" /\ to_visit # <<>>
    /\ LET p == Pop(to_visit) IN
        /\ ~ShouldSkip(p.item[1], p.item[2])
        /\ \E r \in CrawlResponses :
            /\ Raised(r)
            /\ visited' = visited \cup {p.item[1]}
            /\ crawlLog' = Append(crawlLog,
                    [url |-> p.item[1], depth |-> p.item[2], resp |-> r])
            /\ to_visit' = p.rest
            /\ gotResponse' = (gotResponse \/ AnyHttp(<<r>>))
    /\ UNCHANGED <<url, depth, pc, callVars, mainVars>>

\* lines 158, 180: the frontier is empty, visited is returned
CrawlReturn ==
    /\ pc = "loop" /\ to_visit = <<>>
    /\ pc' = "done"
    /\ UNCHANGED <<url, depth, crawlVars, callVars, mainVars, gotResponse>>

Init == CrawlInit /\ mpc = "none" /\ MainUnset
Next == CrawlSkip \/ CrawlFetchOk \/ CrawlFetchFail \/ CrawlReturn
Spec == Init /\ [][Next]_vars
\* the loop is sequential code: it keeps running while it can take a step
FairSpec == Spec /\ WF_vars(Next)

\* ------------------------------------------------------------ fixed-path probes
\* line 51
env_paths == << <<".env">>, <<".env.example">>, <<"config", ".env">>, <<"application", ".env">> >>
\* line 80
admin_paths == << <<"admin">>, <<"administrator">>, <<"login">>, <<"wp-admin">>, <<"panel">> >>

\* the response bodies that contain the marker "APP_KEY" (line 58)
HasAppKey(body) == body \in {"APP_KEY=secret"}

EnvResponses ==
    {ConnErr, Http(404, "not found"), Http(200, "APP_KEY=secret"), Http(200, "<html>")}
AdminResponses ==
    {ConnErr} \cup { Http(st, "<html>") : st \in {200, 204, 403, 404, 500} }

\* lines 53-68: the probe of env_paths[i..], answered by resps[i..]
RECURSIVE CheckEnvFrom(_, _, _)
CheckEnvFrom(u, resps, i) ==
    IF i > Len(env_paths)
    THEN [value |-> <<>>, requested |-> <<>>]
    ELSE LET env_url == urljoin(u, Rel(env_paths[i]))
             rest == CheckEnvFrom(u, resps, i + 1)
             hit == IF Raised(resps[i]) THEN FALSE ELSE HasAppKey(resps[i].body)
         IN [value |-> (IF hit THEN <<env_url>> ELSE <<>>) \o rest.value,
             requested |-> <<env_url>> \o rest.requested]

\* lines 51-68
check_env_files(u, resps) ==
    LET r == CheckEnvFrom(u, resps, 1)
    IN [exc |-> "none", value |-> r.value, requested |-> r.requested]

\* line 87
IsPanelStatus(status) == status = 200 \/ status = 403

\* lines 82-92: the probe of admin_paths[i..], answered by resps[i..]
RECURSIVE CheckAdminFrom(_, _, _)
CheckAdminFrom(u, resps, i) ==
    IF i > Len(admin_paths)
    THEN [value |-> <<>>, requested |-> <<>>]
    ELSE LET admin_url == urljoin(u, Rel(admin_paths[i]))
             rest == CheckAdminFrom(u, resps, i + 1)
             hit == IF Raised(resps[i]) THEN FALSE ELSE IsPanelStatus(resps[i].status)
         IN [value |-> (IF hit THEN <<admin_url>> ELSE <<>>) \o rest.value,
             requested |-> <<admin_url>> \o rest.requested]

\* lines 80-92
check_admin_panels(u, resps) ==
    LET r == CheckAdminFrom(u, resps, 1)
    IN [exc |-> "none", value |-> r.value, requested |-> r.requested]

\* a call of check_admin_panels(url) on its own
AdminInit ==
    /\ url \in Seeds
    /\ responses \in [1..Len(admin_paths) -> AdminResponses]
    /\ returned = NoReturn
    /\ pc = "admin"
    /\ depth = 0 /\ visited = {} /\ to_visit = <<>> /\ crawlLog = <<>>
    /\ mpc = "none" /\ MainUnset

AdminRun ==
    /\ pc = "admin"
    /\ returned' = check_admin_panels(url, responses)
    /\ gotResponse' = AnyHttp(responses)
    /\ pc' = "done"
    /\ UNCHANGED <<url, depth, crawlVars, responses, mainVars>>

AdminSpec == AdminInit /\ [][AdminRun]_vars

\* ------------------------------------------------------------ version scraper
\* A <meta> tag is its attrs dict: a record that has the attribute charset and
\* may have the attributes name and content.
MetaNames == {"generator", "Generator", "viewport"}
MetaContents == {"WordPress 6.2"}
Metas ==
    {[charset |-> "utf-8"]}
    \cup { [charset |-> "utf-8", name |-> n] : n \in MetaNames }
    \cup { [charset |-> "utf-8", content |-> c] : c \in MetaContents }
    \cup { [charset |-> "utf-8", name |-> n, content |-> c] : n \in MetaNames, c \in MetaContents }

\* a page has at most MaxMetas <meta> tags
MaxMetas == 2

\* str.lower() on the modelled names
Lower(str) == IF str = "Generator" THEN "generator" ELSE str
\* 'generator' in str, on the modelled names
ContainsGenerator(str) == str \in {"generator"}

HasAttr(meta, a) == a \in DOMAIN meta

\* a landing page: its <meta> tags in document order, and whether its text
\* contains "wp-content"
Pages == { [metas |-> m, wp |-> w] : m \in SeqsUpTo(Metas, MaxMetas), w \in BOOLEAN }
LandingResponses == {ConnErr, Http(404, [metas |-> <<>>, wp |-> FALSE])} \cup { Http(200, pg) : pg \in Pages }
\* wp-includes/version.php: text with or without a "wp_version =" line
VersionPhpResponses ==
    {ConnErr, Http(404, "not found"), Http(200, "<?php"), Http(200, "$wp_version = '6.1.1';")}

\* "wp_version =" in text, on the modelled bodies
HasWpVersion(body) == body = "$wp_version = '6.1.1';"
\* lines 127-128 on the modelled bodies
ExtractVersion(body) == IF body = "$wp_version = '6.1.1';" THEN "6.1.1" ELSE "?"

\* lines 107-110
RECURSIVE GeneratorFindings(_)
GeneratorFindings(metas) ==
    IF metas = <<>>
    THEN <<>>
    ELSE LET meta == Head(metas)
             match == IF HasAttr(meta, "name")
                      THEN ContainsGenerator(Lower(meta.name)) /\ HasAttr(meta, "content")
                      ELSE FALSE
         IN (IF match THEN << <<"Generator: ", meta.content>> >> ELSE <<>>)
            \o GeneratorFindings(Tail(metas))

\* soup.find("meta", {"name": "generator"}), line 117: the first tag whose name
\* attribute is exactly "generator", as a sequence of zero or one tag
RECURSIVE FindGeneratorTag(_)
FindGeneratorTag(metas) ==
    IF metas = <<>>
    THEN <<>>
    ELSE LET meta == Head(metas)
             match == IF HasAttr(meta, "name") THEN meta.name = "generator" ELSE FALSE
         IN IF match THEN <<meta>> ELSE FindGeneratorTag(Tail(metas))

\* lines 134-137
FindingsOrNone(version_info_) ==
    IF version_info_ # <<>> THEN version_info_ ELSE << <<"No version information found.">> >>

get_installed_software_versions_NoCatch(u, landing, vphp) ==
    [exc |-> "RequestException", value |-> <<>>, requested |-> <<u>>, answered |-> <<landing>>]
\* lines 100-141; exc is the exception that leaves the function, if any
get_installed_software_versions(u, landing, vphp) ==
    IF Raised(landing)
    THEN [exc |-> "none", value |-> << <<"Error fetching page.">> >>,
          requested |-> <<u>>, answered |-> <<landing>>]
    ELSE
      LET page == landing.body
          generators == GeneratorFindings(page.metas)
          generator_tag == FindGeneratorTag(page.metas)
          version_php_url == urljoin(u, Rel(<<"wp-includes", "version.php">>))
      IN IF ~page.wp
         THEN [exc |-> "none", value |-> FindingsOrNone(generators),
               requested |-> <<u>>, answered |-> <<landing>>]
         ELSE IF generator_tag # <<>> /\ ~HasAttr(generator_tag[1], "content")
         THEN \* generator_tag['content'], line 119, raises KeyError
              [exc |-> "KeyError", value |-> <<>>,
               requested |-> <<u>>, answered |-> <<landing>>]
         ELSE
           LET detected == generators \o << <<"WordPress site detected">> >>
               tagged == IF generator_tag # <<>>
                         THEN detected \o << <<"WordPress Generator tag: ", generator_tag[1].content>> >>
                         ELSE detected
               versioned ==
                   IF Raised(vphp)
                   THEN tagged
                   ELSE IF HasWpVersion(vphp.body)
                   THEN tagged \o << <<"WordPress Version from wp-includes/version.php: ",
                                       ExtractVersion(vphp.body)>> >>
                   ELSE tagged
           IN [exc |-> "none", value |-> FindingsOrNone(versioned),
               requested |-> <<u, version_php_url>>, answered |-> <<landing, vphp>>]

\* a call of get_installed_software_versions(url) on its own; responses is
\* <<the landing page's response, the response of wp-includes/version.php>>
VersionsInit ==
    /\ url \in Seeds
    /\ responses \in { <<l, v>> : l \in LandingResponses, v \in VersionPhpResponses }
    /\ returned = NoReturn
    /\ pc = "versions"
    /\ depth = 0 /\ visited = {} /\ to_visit = <<>> /\ crawlLog = <<>>
    /\ mpc = "none" /\ MainUnset

VersionsRun ==
    /\ pc = "versions"
    /\ LET r == get_installed_software_versions(url, responses[1], responses[2]) IN
        /\ returned' = [exc |-> r.exc, value |-> r.value, requested |-> r.requested]
        /\ gotResponse' = AnyHttp(r.answered)
    /\ pc' = "done"
    /\ UNCHANGED <<url, depth, crawlVars, responses, mainVars>>

VersionsSpec == VersionsInit /\ [][VersionsRun]_vars

\* ------------------------------------------------------------------------ main
\* lines 190-209: main calls crawl_website(target_url, crawl_depth)
MainInit == CrawlInit /\ mpc = "crawl" /\ MainUnset

\* lines 209-210: crawl_website has returned; its locals are gone
MainCrawled ==
    /\ mpc = "crawl" /\ pc = "done"
    /\ discovered_urls' = visited
    /\ visited' = {} /\ to_visit' = <<>> /\ crawlLog' = <<>>
    /\ mpc' = "env"
    /\ UNCHANGED <<url, depth, pc, callVars, env_files, admin_panels, version_info,
                   caught, gotResponse>>

\* What a call made by main can give back: for each target URL, the results
\* of the function over every sequence of server responses, each with whether
\* some response was an HTTP response.
EnvOutcomes ==
    [u \in Seeds |->
        { [value |-> check_env_files(u, resps).value, http |-> AnyHttp(resps)] :
            resps \in [1..Len(env_paths) -> EnvResponses] }]
AdminOutcomes ==
    [u \in Seeds |->
        { [value |-> check_admin_panels(u, resps).value, http |-> AnyHttp(resps)] :
            resps \in [1..Len(admin_paths) -> AdminResponses] }]
ScraperOutcome(r) == [exc |-> r.exc, value |-> r.value, http |-> AnyHttp(r.answered)]
ScraperOutcomes ==
    [u \in Seeds |->
        { ScraperOutcome(get_installed_software_versions(u, l, v)) :
            l \in LandingResponses, v \in VersionPhpResponses }]

\* lines 214-220
MainEnv ==
    /\ mpc = "env"
    /\ \E r \in EnvOutcomes[url] :
        /\ env_files' = r.value
        /\ gotResponse' = (gotResponse \/ r.http)
    /\ mpc' = "admin"
    /\ UNCHANGED <<url, depth, pc, crawlVars, callVars, discovered_urls, admin_panels,
                   version_info, caught>>

\* lines 224-230
MainAdmin ==
    /\ mpc = "admin"
    /\ \E r \in AdminOutcomes[url] :
        /\ admin_panels' = r.value
        /\ gotResponse' = (gotResponse \/ r.http)
    /\ mpc' = "versions"
    /\ UNCHANGED <<url, depth, pc, crawlVars, callVars, discovered_urls, env_files,
                   version_info, caught>>

\* lines 234-246: an exception that leaves the scraper is caught by
\* "except Exception" and logged; main ends normally either way
MainVersions ==
    /\ mpc = "versions"
    /\ \E r \in ScraperOutcomes[url] :
        /\ version_info' = (IF r.exc = "none" THEN r.value ELSE version_info)
        /\ caught' = (r.exc # "none")
        /\ gotResponse' = (gotResponse \/ r.http)
    /\ mpc' = "end"
    /\ UNCHANGED <<url, depth, pc, crawlVars, callVars, discovered_urls, env_files,
                   admin_panels>>

MainNext ==
    \/ CrawlSkip \/ CrawlFetchOk \/ CrawlFetchFail \/ CrawlReturn
    \/ MainCrawled \/ MainEnv \/ MainAdmin \/ MainVersions
MainSpec == MainInit /\ [][MainNext]_vars

\* --------------------------------------------------- properties of the crawl
\* the URLs requested by the crawl so far
LogUrls == { crawlLog[i].url : i \in DOMAIN crawlLog }

\* the same-netloc URLs the page fetched by log entry e links to
LinkedFrom(e) ==
    IF Raised(e.resp)
    THEN {}
    ELSE { v \in { urljoin(e.url, e.resp.body[k]) : k \in DOMAIN e.resp.body } :
             v.netloc = url.netloc }

\* the edges out of u in the graph the crawl's responses define
Succ(u) == UNION { LinkedFrom(crawlLog[i]) : i \in { j \in DOMAIN crawlLog : crawlLog[j].url = u } }

\* the URLs at most k hops from the seed in that graph
RECURSIVE Within(_)
Within(k) ==
    IF k <= 0
    THEN {url}
    ELSE LET W == Within(k - 1) IN W \cup UNION { Succ(u) : u \in W }

\* C1 as stated: whatever depth is, negative included, the returned set
\* contains the seed URL.
C1_SeedAlwaysInResult == pc = "done" => url \in visited

\* C1 amended: for depth >= 0 the returned set contains the seed URL, whether
\* or not its fetch succeeded; for depth < 0 the returned set is empty.
C1_SeedInResultIfNonNegative ==
    pc = "done" => IF depth >= 0 THEN url \in visited ELSE visited = {}

\* depth 0, the seed's fetch failed, and the crawl has returned
C1_Witness ==
    /\ pc = "done" /\ depth = 0
    /\ Len(crawlLog) = 1 /\ crawlLog[1].url = url /\ Raised(crawlLog[1].resp)

\* C2 as stated: every URL of the result has the seed's scheme and netloc
\* (scheme + host + port).
C2_ResultSharesAuthority ==
    \A u \in visited : u.scheme = url.scheme /\ u.netloc = url.netloc

\* C2 amended: every URL enqueued, fetched or added to the result has the
\* seed's netloc (host + port); the scheme is not compared.
C2_ResultSharesNetloc ==
    /\ \A u \in visited : u.netloc = url.netloc
    /\ \A i \in DOMAIN to_visit : to_visit[i][1].netloc = url.netloc
    /\ \A i \in DOMAIN crawlLog : crawlLog[i].url.netloc = url.netloc

\* the crawl has returned after fetching a page that links to another netloc,
\* and the result holds a URL of the seed's netloc under another scheme
C2_Witness ==
    /\ pc = "done"
    /\ \E i \in DOMAIN crawlLog :
        /\ ~Raised(crawlLog[i].resp)
        /\ \E k \in DOMAIN crawlLog[i].resp.body :
            urljoin(crawlLog[i].url, crawlLog[i].resp.body[k]).netloc # url.netloc
    /\ \E u \in visited : u.scheme # url.scheme

\* C3: no entry deeper than depth is fetched or added: every request was made
\* at a depth <= depth, and every URL of visited was requested at such a depth.
C3_NothingBeyondDepth ==
    /\ \A i \in DOMAIN crawlLog : crawlLog[i].depth <= depth
    /\ \A u \in visited :
        \E i \in DOMAIN crawlLog : crawlLog[i].url = u /\ crawlLog[i].depth <= depth

\* the crawl has returned, and a page fetched at depth = depth linked to a
\* same-netloc URL that is not in the result: its entry was discarded
C3_Witness ==
    /\ pc = "done"
    /\ \E i \in DOMAIN crawlLog :
        /\ crawlLog[i].depth = depth
        /\ \E v \in LinkedFrom(crawlLog[i]) : v \notin visited

\* C4: the crawl terminates.
C4_Terminates == <>(pc = "done")

\* the crawl has returned from a site where two different pages link to each
\* other, one page links to itself and one fetch failed
C4_Witness ==
    /\ pc = "done"
    /\ \E i, j \in DOMAIN crawlLog :
        /\ i # j
        /\ crawlLog[j].url \in LinkedFrom(crawlLog[i])
        /\ crawlLog[i].url \in LinkedFrom(crawlLog[j])
    /\ \E i \in DOMAIN crawlLog : crawlLog[i].url \in LinkedFrom(crawlLog[i])
    /\ \E i \in DOMAIN crawlLog : Raised(crawlLog[i].resp)

\* C5 as stated: the frontier never holds two entries with the same URL and
\* never holds a URL that is in visited.
C5_FrontierHasNoDuplicates ==
    /\ \A i, j \in DOMAIN to_visit : to_visit[i][1] = to_visit[j][1] => i = j
    /\ \A i \in DOMAIN to_visit : to_visit[i][1] \notin visited

\* C5 amended: links are appended without a check, so the frontier may hold a
\* URL twice or a visited URL; the check is made when an entry is popped, so a
\* URL is requested and added to visited at most once in a crawl.
C5_RequestedAtMostOnce ==
    \A i, j \in DOMAIN crawlLog : crawlLog[i].url = crawlLog[j].url => i = j

\* the crawl has returned, and a URL of the result was linked from two
\* different fetched pages, so it was enqueued twice
C5_Witness ==
    /\ pc = "done"
    /\ \E i, j \in DOMAIN crawlLog :
        /\ i # j
        /\ \E v \in LinkedFrom(crawlLog[i]) \cap LinkedFrom(crawlLog[j]) : v \in visited

\* a step in which the crawl made a request that raised
FailStep ==
    /\ Len(crawlLog') = Len(crawlLog) + 1
    /\ Raised(crawlLog'[Len(crawlLog')].resp)

\* C6: a failed fetch adds the URL to visited, appends nothing to the frontier,
\* leaves the queued entries as they were and stays in the loop; the returned
\* set is the set of URLs a request was made for.
C6_FailureIsolated ==
    /\ [][FailStep =>
            /\ crawlLog'[Len(crawlLog')].url = Head(to_visit)[1]
            /\ visited' = visited \cup {Head(to_visit)[1]}
            /\ to_visit' = Tail(to_visit)
            /\ pc' = "loop"]_vars
    /\ [](pc = "done" => visited = LogUrls)

\* the crawl has returned after a failed fetch that was followed by a later
\* request
C6_Witness ==
    /\ pc = "done"
    /\ \E i, j \in DOMAIN crawlLog : i < j /\ Raised(crawlLog[i].resp)

\* C10: requests are made in non-decreasing depth order, each URL at its
\* shortest hop distance from the seed, and for depth >= 0 the returned set is
\* the set of URLs at most depth hops from the seed.
C10_BreadthFirst ==
    (pc = "done" /\ depth >= 0) =>
        /\ visited = Within(depth)
        /\ \A i, j \in DOMAIN crawlLog : i < j => crawlLog[i].depth <= crawlLog[j].depth
        /\ \A i \in DOMAIN crawlLog :
            /\ crawlLog[i].url \in Within(crawlLog[i].depth)
            /\ crawlLog[i].depth > 0 => crawlLog[i].url \notin Within(crawlLog[i].depth - 1)

\* the crawl has returned, and a URL of the result that is one hop from the
\* seed was also linked from a page fetched at depth 1 or more
C10_Witness ==
    /\ pc = "done" /\ depth >= 2
    /\ \E i, j \in DOMAIN crawlLog :
        /\ crawlLog[i].depth = 0 /\ crawlLog[j].depth >= 1
        /\ \E v \in LinkedFrom(crawlLog[i]) \cap LinkedFrom(crawlLog[j]) :
            /\ v # url
            /\ Succ(v) \ Within(1) # {}

\* ------------------------------------------- properties of the admin-panel probe
\* the response is an HTTP response with a status outside 400..599
Answered(r) == IF r.kind = "http" THEN r.status < 400 \/ r.status > 599 ELSE FALSE

\* the URLs of the candidate paths i.. whose response did not raise and has
\* status 200 or 403, in path order
RECURSIVE ExpectedPanels(_)
ExpectedPanels(i) ==
    IF i > 5
    THEN <<>>
    ELSE LET name == <<"admin", "administrator", "login", "wp-admin", "panel">>[i]
             hit == IF Answered(responses[i])
                    THEN responses[i].status \in {200, 403}
                    ELSE FALSE
         IN (IF hit THEN <<urljoin(url, Rel(<<name>>))>> ELSE <<>>) \o ExpectedPanels(i + 1)

\* C8: the probe requests admin, administrator, login, wp-admin, panel in that
\* order, whatever the earlier answers were, and returns in that order the
\* URLs whose fetch did not raise and whose status is 200 or 403; status 200
\* at admin is a hit, status 404 everywhere gives no hit.
C8_AdminHits ==
    pc = "done" =>
        /\ returned.exc = "none"
        /\ returned.requested =
            [i \in 1..5 |->
                urljoin(url, Rel(<< <<"admin", "administrator", "login", "wp-admin", "panel">>[i] >>))]
        /\ returned.value = ExpectedPanels(1)
        /\ (responses[1].kind = "http" /\ responses[1].status = 200)
            => returned.value # <<>> /\ returned.value[1] = urljoin(url, Rel(<<"admin">>))
        /\ (\A i \in 1..5 : responses[i].kind = "http" /\ responses[i].status = 404)
            => returned.value = <<>>

\* the probe has returned a hit for a path that follows a connection error, a
\* 403 and a 404
C8_Witness ==
    /\ pc = "done"
    /\ responses[1].kind = "connerr"
    /\ responses[2].kind = "http" /\ responses[2].status = 403
    /\ responses[3].kind = "http" /\ responses[3].status = 404
    /\ responses[4].kind = "http" /\ responses[4].status = 200
    /\ returned.value = <<urljoin(url, Rel(<<"wp-admin">>))>>

\* ----------------------------------------------- properties of the version scraper
\* the landing page's fetch failed
LandingFailed == ~Answered(responses[1])

\* C9: whatever the landing page's fetch gives and whatever the page holds, the
\* scraper returns normally a non-empty sequence, which is the single fetch-error
\* finding exactly when the landing fetch failed, and the single no-version
\* finding only when the fetch succeeded.
C9_ScraperAlwaysReturns ==
    pc = "done" =>
        /\ returned.exc = "none"
        /\ returned.value # <<>>
        /\ LandingFailed <=> returned.value = << <<"Error fetching page.">> >>
        /\ returned.value = << <<"No version information found.">> >> => ~LandingFailed

\* -------------------------------------------------------------- properties of main
\* main has ended, every request of the run failed with a connection error,
\* and crawl_depth >= 0
UnreachableRunEnded == mpc = "end" /\ ~gotResponse /\ depth >= 0

\* C7 as stated: on an unreachable host with crawl_depth >= 0 the report has
\* zero crawled URLs, no .env file, no admin panel, the single fetch-error
\* version finding, and no exception reached main.
C7_UnreachableReportsNoUrl ==
    UnreachableRunEnded =>
        /\ Cardinality(discovered_urls) = 0
        /\ env_files = <<>>
        /\ admin_panels = <<>>
        /\ version_info = << <<"Error fetching page.">> >>
        /\ ~caught

\* C7 amended: on an unreachable host with crawl_depth >= 0 the report has
\* exactly one crawled URL, the target itself, no .env file, no admin panel,
\* the single fetch-error version finding, and no exception reached main.
C7_UnreachableReportsTargetOnly ==
    UnreachableRunEnded =>
        /\ discovered_urls = {url}
        /\ env_files = <<>>
        /\ admin_panels = <<>>
        /\ version_info = << <<"Error fetching page.">> >>
        /\ ~caught

\* a run against an unreachable host has ended
C7_Witness == UnreachableRunEnded /\ version_info # <<>>

====
